---- MODULE Spec2Model ----
(***************************************************************************)
(* Lamplighter presence manager.                                           *)
(*                                                                         *)
(* Two programs live in the repository:                                    *)
(*   lamplighter.py  the scan variant (python 2): one household state in   *)
(*                   a state file, decided from nmap / arp-scan counts;    *)
(*   heartbeat.py    the heartbeat variant (python 3): one state record    *)
(*                   per alias in sqlite, decided from heartbeat ages.     *)
(* A behaviour of Spec is a run of one of the two programs: Init starts    *)
(* either lamplighter's run() (pc = "start", hpc = "off") or heartbeat's   *)
(* main() (hpc = "main", pc = "off").                                      *)
(*                                                                         *)
(* Python values are encoded as follows.  The failure value False that a   *)
(* scan returns is the integer Fail = -1 (a count is never negative), the  *)
(* False that current_state() returns for a missing state file is the      *)
(* string "False", and the return value of within_quiet_hours() is one of  *)
(* the strings "True", "False", "None".                                    *)
(***************************************************************************)
EXTENDS Integers, Sequences, FiniteSets, TLC

VARIABLES
    \* ---- lamplighter.py ----
    pc,            \* position of the scan process
    pidfile,       \* /var/run/lamplighter.pid exists
    config,        \* config.config as loaded by config.load()
    statefile,     \* contents of /tmp/welcome_home_state ("False" = no file)
    state,         \* search(): local state
    device_count,  \* search(): local device_count
    x,             \* confirm_device_count_is_zero(): loop index
    polls,         \* failed initial polls of this cycle (counted up to MaxPolls)
    samples,       \* results of the confirmation samples of this cycle
    delayed,       \* the 10 second delay was taken in this cycle
    saved,         \* states handed to save_state in this cycle
    calls,         \* callbacks invoked in this cycle
    baseline,      \* the devices configured when the confirmation of this
                   \* cycle started, and what its samples count against them
    \* ---- heartbeat.py ----
    hpc,            \* position of the heartbeat process
    ll,             \* the state table of lamplighter.db
    now,            \* int(time.time())
    heartbeats,     \* the heartbeat ages read in this cycle
    people_at_home, \* observe_state_changes(): people_at_home
    known_state,    \* observe_state_changes(): known_state
    new_state,      \* observe_state_changes(): new_state
    changes,        \* observe_state_changes(): changes
    state_change,   \* run(): what observe_state_changes returned
    hcalls,         \* callbacks invoked in this cycle
    \* ---- within_quiet_hours as a function ----
    q_in, q_out

scanvars == <<pc, pidfile, config, statefile, state, device_count, x,
              polls, samples, delayed, saved, calls, baseline>>
hbvars == <<hpc, ll, now, heartbeats, people_at_home, known_state,
            new_state, changes, state_change, hcalls>>
quietvars == <<q_in, q_out>>
vars == <<scanvars, hbvars, quietvars>>

(***************************************************************************)
(* Bounds of the model.                                                    *)
(***************************************************************************)
NumMacs == 2      \* MAC addresses that exist on the network
MaxPolls == 2     \* failed initial polls counted per cycle

NumUsers == 2     \* configured aliases
AgeSpread == 1    \* heartbeat ages range over 2699 .. 2699 + AgeSpread
MaxFaults == 2    \* storage errors in a row in one call
MaxTime == 2      \* the clock runs up to MaxTime

Macs == 1..NumMacs
Users == 1..NumUsers
NoRow == -1
Ages == 2699..(2699 + AgeSpread)
Heartbeats == [Users -> Ages \cup {NoRow}]
RecursionLimit == MaxFaults + 3
\* The storage errors of one call: no execution raises, or MaxFaults or
\* fewer in a row do, from the k-th execution of the call on.
FaultScripts(statements) ==
    {<<>>} \cup
    {[i \in 1..(k + n - 1) |-> i >= k] : k \in 1..statements, n \in 1..MaxFaults}
Fail == -1
NoState == "False"
Hours == {12, 23}
QuietHours == {<<0, 0>>, <<22, 6>>}

\* A scan exits with status zero and prints the MAC addresses it saw, or
\* exits non-zero (CalledProcessError).
ScanResults == [ok : {TRUE}, seen : SUBSET Macs]
                   \cup {[ok |-> FALSE, seen |-> {}]}

\* config.config: the devices to look for (name -> MAC, here the set of the
\* MACs) and the quiet hours.
Configs == {[devices |-> d, quiet_hours_start |-> q[1],
             quiet_hours_end |-> q[2]] :
                d \in (SUBSET Macs) \ {{}}, q \in QuietHours}
NoConfig == [devices |-> {}, quiet_hours_start |-> 0, quiet_hours_end |-> 0]
HBConfigs == {[users |-> Users, quiet_hours_start |-> q[1],
               quiet_hours_end |-> q[2]] : q \in QuietHours}

(***************************************************************************)
(* Quiet hours.                                                            *)
(***************************************************************************)
\* lamplighter.py: falls off the end (None) when no branch returns.
within_quiet_hours_and(hour, start, end) ==
    IF start = 0 /\ end = 0 THEN "False"
    ELSE IF start < end /\ start <= hour /\ end > hour THEN "True"
    ELSE IF start > end /\ (start <= hour /\ end > hour) THEN "True"
    ELSE "None"

within_quiet_hours(hour, start, end) ==
    IF start = 0 /\ end = 0 THEN "False"
    ELSE IF start < end /\ start <= hour /\ end > hour THEN "True"
    ELSE IF start > end /\ (start <= hour \/ end > hour) THEN "True"
    ELSE "None"

\* heartbeat.py: the same tests, ending in return False.
hb_within_quiet_hours(hour, start, end) ==
    IF start = 0 /\ end = 0 THEN "False"
    ELSE IF start < end /\ start <= hour /\ end > hour THEN "True"
    ELSE IF start > end /\ (start <= hour \/ end > hour) THEN "True"
    ELSE "False"

\* Python truth value of what within_quiet_hours returns.
truthy(v) == v = "True"

(***************************************************************************)
(* lamplighter.py: scanning.                                               *)
(***************************************************************************)
\* count_devices_in_string: the configured devices found in the output.
count_devices_in_string(search_string, devices) ==
    Cardinality({m \in devices : m \in search_string})

\* count_devices_present_nmap / _arp: a non-zero exit status gives False.
count_devices_present_scan(out, devices) ==
    IF ~out.ok THEN Fail ELSE count_devices_in_string(out.seen, devices)

\* count_devices_present: nmap, and arp-scan when nmap counted zero and
\* confirmation with arp is asked for.
count_devices_present(confirm_with_arp, nmap, arp, devices) ==
    LET count == count_devices_present_scan(nmap, devices) IN
    IF confirm_with_arp /\ count = 0
    THEN count_devices_present_scan(arp, devices)
    ELSE count

\* confirm_device_count_is_zero: range(3).
ConfirmSearches == 3

\* confirm_device_count_is_zero: "if test is not 0" -- a false alarm.
false_alarm_only_failure(test) == test = Fail
false_alarm_any_count(test) == test >= 0
false_alarm_equality(test) == test > 0
false_alarm(test) == test # 0

\* search(): the state an uninitialized store is given.
initial_state_home(count) == "home"
initial_state(count) == IF count = 0 THEN "away" ELSE "home"

\* save_state: the file is replaced by one holding the state; the statement
\* "state_changes += 1" that follows has no global declaration, so
\* state_changes is a local read before assignment and UnboundLocalError
\* is raised after the file was written.
save_state(s) == [file |-> s, raised |-> TRUE]

\* current_state: the saved line, or False without a file.
current_state(file) == file

(***************************************************************************)
(* lamplighter.py: the process.                                            *)
(***************************************************************************)
\* No confirmation has started in this cycle.
NoBaseline == [devices |-> {}, counts |-> <<>>]

InitScanVars ==
    /\ pidfile = FALSE
    /\ config = NoConfig
    /\ state = NoState
    /\ device_count = Fail
    /\ x = 0
    /\ polls = 0
    /\ samples = <<>>
    /\ delayed = FALSE
    /\ saved = <<>>
    /\ calls = <<>>
    /\ baseline = NoBaseline

InitHBVars ==
    /\ ll = [exists |-> FALSE, rows |-> <<>>]
    /\ now = 0
    /\ heartbeats = [u \in Users |-> NoRow]
    /\ people_at_home = {}
    /\ known_state = <<>>
    /\ new_state = <<>>
    /\ changes = <<>>
    /\ state_change = <<"away", "away", <<>> >>
    /\ hcalls = <<>>

InitQuietVars ==
    /\ q_in = [hour |-> 0, start |-> 0, end |-> 0]
    /\ q_out = [ll |-> "", hb |-> ""]

InitScan ==
    /\ pc = "start"
    /\ hpc = "off"
    /\ statefile \in {NoState, "home", "away"}
    /\ InitScanVars
    /\ InitHBVars
    /\ InitQuietVars

\* run(), up to the loop: pidfile, configuration.
Run ==
    /\ pc = "start"
    /\ pidfile' = TRUE
    /\ config' \in Configs
    /\ pc' = "search"
    /\ UNCHANGED <<statefile, state, device_count, x, polls, samples,
                   delayed, saved, calls, baseline>>
    /\ UNCHANGED <<hbvars, quietvars>>

\* search(), up to the loop of initial polls.
Search ==
    /\ pc = "search"
    /\ state' = current_state(statefile)
    /\ device_count' = Fail
    /\ x' = 0
    /\ polls' = 0
    /\ samples' = <<>>
    /\ delayed' = FALSE
    /\ saved' = <<>>
    /\ calls' = <<>>
    /\ baseline' = NoBaseline
    /\ pc' = "initial"
    /\ UNCHANGED <<pidfile, config, statefile>>
    /\ UNCHANGED <<hbvars, quietvars>>

\* save_state(new) followed by the callback cb; the callback is reached only
\* when save_state returns.
SaveAndCall(new, cb, hour) ==
    LET r == save_state(new) IN
    /\ statefile' = r.file
    /\ saved' = Append(saved, new)
    /\ IF r.raised
       THEN /\ pc' = "crashed"
            /\ calls' = calls
       ELSE /\ pc' = "sleep"
            /\ calls' = Append(calls,
                 [cb |-> cb,
                  quiet |-> IF truthy(within_quiet_hours(hour,
                                         config.quiet_hours_start,
                                         config.quiet_hours_end))
                            THEN "True" ELSE "False",
                  hour |-> hour])

\* One pass of "while device_count is False".
InitialPoll ==
    /\ pc = "initial"
    /\ \E nmap \in ScanResults, arp \in ScanResults :
         LET count == count_devices_present(state = "home" \/ state = NoState,
                                            nmap, arp, config.devices) IN
         /\ device_count' = count
         /\ IF count = Fail
            THEN /\ pc' = "initial"
                 /\ polls' = IF polls < MaxPolls THEN polls + 1 ELSE polls
            ELSE /\ pc' = "decide"
                 /\ polls' = polls
    /\ UNCHANGED <<pidfile, config, statefile, state, x, samples, delayed,
                   saved, calls, baseline>>
    /\ UNCHANGED <<hbvars, quietvars>>

\* search() after the initial count: initialization, and the three branches.
Decide ==
    /\ pc = "decide"
    /\ \E hour \in Hours :
         IF state = NoState
         THEN LET init == initial_state(device_count)
                  r == save_state(init) IN
              /\ state' = init
              /\ statefile' = r.file
              /\ saved' = Append(saved, init)
              /\ pc' = IF r.raised THEN "crashed" ELSE "sleep"
              /\ UNCHANGED <<delayed, calls, baseline>>
         ELSE IF state = "home" /\ device_count = 0
         THEN /\ pc' = "delay"
              /\ delayed' = TRUE
              /\ baseline' = [devices |-> config.devices, counts |-> <<>>]
              /\ UNCHANGED <<state, statefile, saved, calls>>
         ELSE IF state = "away" /\ device_count > 0
         THEN /\ SaveAndCall("home", "on_home", hour)
              /\ UNCHANGED <<state, delayed, baseline>>
         ELSE /\ pc' = "sleep"
              /\ UNCHANGED <<state, statefile, saved, calls, delayed, baseline>>
    /\ UNCHANGED <<pidfile, config, device_count, x, polls, samples>>
    /\ UNCHANGED <<hbvars, quietvars>>

\* time.sleep(10) before the confirmation searches.
Delay ==
    /\ pc = "delay"
    /\ pc' = "confirm"
    /\ x' = 0
    /\ UNCHANGED <<pidfile, config, statefile, state, device_count, polls,
                   samples, delayed, saved, calls, baseline>>
    /\ UNCHANGED <<hbvars, quietvars>>

\* One pass of the loop of confirm_device_count_is_zero; after the last
\* pass the function returns True and search() commits "away".
ConfirmSample ==
    /\ pc = "confirm"
    /\ \E nmap \in ScanResults, arp \in ScanResults, hour \in Hours :
         LET test == count_devices_present(TRUE, nmap, arp, config.devices) IN
         /\ samples' = Append(samples, test)
         /\ baseline' = [baseline EXCEPT !.counts =
                Append(@, count_devices_present(TRUE, nmap, arp,
                                                baseline.devices))]
         /\ IF false_alarm(test)
            THEN /\ pc' = "sleep"
                 /\ UNCHANGED <<x, statefile, saved, calls>>
            ELSE IF x + 1 < ConfirmSearches
            THEN /\ x' = x + 1
                 /\ pc' = "confirm"
                 /\ UNCHANGED <<statefile, saved, calls>>
            ELSE /\ x' = x + 1
                 /\ SaveAndCall("away", "on_away", hour)
    /\ UNCHANGED <<pidfile, config, state, device_count, polls, delayed>>
    /\ UNCHANGED <<hbvars, quietvars>>

\* time.sleep(1), then the next pass of the loop of run().
Sleep ==
    /\ pc = "sleep"
    /\ pc' = "search"
    /\ UNCHANGED <<pidfile, config, statefile, state, device_count, x, polls,
                   samples, delayed, saved, calls, baseline>>
    /\ UNCHANGED <<hbvars, quietvars>>

\* The daemon manager runs the dispatcher again after it died; the state
\* file and the pidfile are what the dead process left.
Restart ==
    /\ pc = "crashed"
    /\ pc' = "start"
    /\ config' = NoConfig
    /\ UNCHANGED <<pidfile, statefile, state, device_count, x, polls,
                   samples, delayed, saved, calls, baseline>>
    /\ UNCHANGED <<hbvars, quietvars>>

\* The positions of the process at which the handlers run() installed can be
\* called: a signal is handled between two bytecodes of the main thread,
\* wherever that thread is, and cuts short the sleep it is in.
Running == {"search", "initial", "decide", "delay", "confirm", "sleep"}

\* handle_term: unlink the pidfile and sys.exit(0).
handle_term ==
    /\ pc \in Running
    /\ pidfile' = FALSE
    /\ pc' = "exited"
    /\ UNCHANGED <<config, statefile, state, device_count, x, polls,
                   samples, delayed, saved, calls, baseline>>
    /\ UNCHANGED <<hbvars, quietvars>>

\* handle_hup: config.load() puts what the configuration file now holds in
\* config.config.
handle_hup ==
    /\ pc \in Running
    /\ config' \in Configs
    /\ UNCHANGED <<pc, pidfile, statefile, state, device_count, x, polls,
                   samples, delayed, saved, calls, baseline>>
    /\ UNCHANGED <<hbvars, quietvars>>

(***************************************************************************)
(* heartbeat.py: the sqlite store.                                         *)
(*                                                                         *)
(* A world w is what a call can read and change: the state table of        *)
(* lamplighter.db (tbl), the heartbeat ages heartbeat.db answers with in   *)
(* this cycle (hb), the clock (now), the transient storage errors still to *)
(* come (faults: one entry per execute, TRUE = sqlite3.OperationalError),  *)
(* and the exception that is propagating, if any (error).                  *)
(***************************************************************************)
NoError == ""

CreateTable == [op |-> "create"]

\* c.execute(sql, params); conn.commit(); c.fetchall()
execute(w, sql) ==
    LET w1 == [w EXCEPT !.faults = IF @ = <<>> THEN @ ELSE Tail(@)]
        raise == [w |-> w1, ok |-> FALSE, rows |-> <<>>]
        IsWho(r) == r.who = sql.who
        IsUser(r) == r.who \in w.users
    IN
    IF w.faults # <<>> /\ Head(w.faults) THEN raise
    ELSE IF sql.op = "heartbeats" THEN [w |-> w1, ok |-> TRUE, rows |-> w.hb]
    ELSE IF sql.op = "create"
    THEN IF w.tbl.exists THEN raise
         ELSE [w |-> [w1 EXCEPT !.tbl = [exists |-> TRUE, rows |-> <<>>]],
               ok |-> TRUE, rows |-> <<>>]
    ELSE IF ~w.tbl.exists THEN raise
    ELSE IF sql.op = "select_who"
    THEN [w |-> w1, ok |-> TRUE, rows |-> SelectSeq(w.tbl.rows, IsWho)]
    ELSE IF sql.op = "select_all"
    THEN [w |-> w1, ok |-> TRUE, rows |-> SelectSeq(w.tbl.rows, IsUser)]
    ELSE IF sql.op = "insert"
    THEN [w |-> [w1 EXCEPT !.tbl.rows = Append(@,
                    [who |-> sql.who, state |-> sql.state,
                     updated |-> sql.updated])],
          ok |-> TRUE, rows |-> <<>>]
    ELSE \* "update"
         [w |-> [w1 EXCEPT !.tbl.rows =
                    [i \in DOMAIN @ |->
                        IF @[i].who = sql.who
                        THEN [@[i] EXCEPT !.state = sql.state,
                                          !.updated = sql.updated]
                        ELSE @[i]]],
          ok |-> TRUE, rows |-> <<>>]

\* query(db, sql, params, attempt); init_database() is query(LL, CREATE
\* TABLE ...) with the default attempt = 1.  depth is the depth of the
\* python stack: past RecursionLimit the interpreter raises.  execs counts
\* the executions of sql and inits the calls of init_database that the call
\* led to.
RECURSIVE query(_, _, _, _)
query(w, sql, attempt, depth) ==
    IF depth > RecursionLimit
    THEN [w |-> [w EXCEPT !.error = "RecursionError"], ok |-> FALSE,
          rows |-> <<>>, execs |-> 0, inits |-> 0]
    ELSE LET e == execute(w, sql) IN
         IF e.ok
         THEN [w |-> e.w, ok |-> TRUE, rows |-> e.rows,
               execs |-> 1, inits |-> 0]
         ELSE IF attempt > 1
         THEN [w |-> e.w, ok |-> FALSE, rows |-> <<>>,
               execs |-> 1, inits |-> 0]
         ELSE LET init_database == query(e.w, CreateTable, 1, depth + 1) IN
              IF init_database.w.error # NoError
              THEN [w |-> init_database.w, ok |-> FALSE, rows |-> <<>>,
                    execs |-> 1, inits |-> 1 + init_database.inits]
              ELSE LET again == query(init_database.w, sql, 2, depth + 1) IN
                   [w |-> again.w, ok |-> again.ok, rows |-> again.rows,
                    execs |-> 1 + again.execs,
                    inits |-> 1 + init_database.inits]

\* get_state that finds no row, whatever the table holds.
get_state_never_found(w, who) ==
    LET q == query(w, [op |-> "select_who", who |-> who], 1, 1) IN
    [w |-> q.w, found |-> FALSE]

\* get_state(who): the first row of who, or False.
get_state(w, who) ==
    LET q == query(w, [op |-> "select_who", who |-> who], 1, 1) IN
    [w |-> q.w, found |-> q.ok /\ Len(q.rows) > 0]

\* set_state(who, state): INSERT when get_state gave False, else UPDATE;
\* ok is whether what it returns is other than False.
set_state(w, who, s) ==
    LET exists == get_state(w, who)
        sql == [op |-> IF exists.found THEN "update" ELSE "insert",
                who |-> who, state |-> s, updated |-> w.now]
        q == query(exists.w, sql, 1, 1)
    IN
    IF exists.w.error # NoError THEN [w |-> exists.w, ok |-> FALSE]
    ELSE [w |-> q.w, ok |-> q.ok]

\* who_is_home: the names whose heartbeat age is below 2700 seconds.
\* Iterating over the False of a failed query raises TypeError.
FRESH == 2700

people_of_inclusive(rows) ==
    {name \in {u \in DOMAIN rows : rows[u] # NoRow} : rows[name] <= FRESH}

people_of_stale(rows) ==
    {name \in {u \in DOMAIN rows : rows[u] # NoRow} : rows[name] > FRESH}

people_of(rows) ==
    LET heartbeats_by_person ==
            [who \in {u \in DOMAIN rows : rows[u] # NoRow}
                |-> rows[who]]
    IN {name \in DOMAIN heartbeats_by_person :
            heartbeats_by_person[name] < FRESH}

\* get_combined_state
\* get_combined_state with any() where the code has all().
get_combined_state_any(states) ==
    IF \E i \in DOMAIN states : states[i].state = "away"
    THEN "away" ELSE "home"

get_combined_state(states) ==
    IF \A i \in DOMAIN states : states[i].state = "away"
    THEN "away" ELSE "home"

\* changes[who] = pair: a python dict keeps the place of a key already there.
dict_set(d, who, pair) ==
    IF \E i \in DOMAIN d : d[i].who = who
    THEN [i \in DOMAIN d |->
             IF d[i].who = who THEN [who |-> who, change |-> pair]
             ELSE d[i]]
    ELSE Append(d, [who |-> who, change |-> pair])

\* What observe_state_changes records for a subject that went away.
GoneAway == <<"away", "home">>

\* The number of callbacks run() invokes for what observe_state_changes
\* returned.
callbacks_count(sc) ==
    IF sc[1] # sc[2] THEN 1 ELSE Len(sc[3])

\* run() with the two combined callbacks exchanged.
callbacks_of_swapped(sc, hours, start, end) ==
    IF sc[1] # sc[2]
    THEN << [cb |-> IF sc[2] = "away" THEN "on_first_home" ELSE "on_last_away",
             quiet |-> hb_within_quiet_hours(hours[1], start, end),
             hour |-> hours[1], arg |-> sc[3]] >>
    ELSE [k \in DOMAIN sc[3] |->
            [cb |-> IF sc[3][k].change[2] = "away" THEN "on_away" ELSE "on_home",
             quiet |-> hb_within_quiet_hours(hours[k], start, end),
             hour |-> hours[k], arg |-> sc[3][k].who]]

\* run() with the per-subject branch an "if" of its own rather than an "elif".
callbacks_of_both(sc, hours, start, end) ==
    (IF sc[1] # sc[2]
     THEN << [cb |-> IF sc[2] = "away" THEN "on_last_away" ELSE "on_first_home",
              quiet |-> hb_within_quiet_hours(hours[1], start, end),
              hour |-> hours[1], arg |-> sc[3]] >>
     ELSE <<>>)
    \o [k \in DOMAIN sc[3] |->
            [cb |-> IF sc[3][k].change[2] = "away" THEN "on_away" ELSE "on_home",
             quiet |-> hb_within_quiet_hours(hours[1], start, end),
             hour |-> hours[1], arg |-> sc[3][k].who]]

\* The callbacks run() invokes for what observe_state_changes returned;
\* hours[k] is the hour of the clock at the k-th callback.
callbacks_of(sc, hours, start, end) ==
    IF sc[1] # sc[2]
    THEN IF sc[2] = "away"
         THEN << [cb |-> "on_last_away",
                  quiet |-> hb_within_quiet_hours(hours[1], start, end),
                  hour |-> hours[1], arg |-> sc[3]] >>
         ELSE IF sc[2] = "home"
         THEN << [cb |-> "on_first_home",
                  quiet |-> hb_within_quiet_hours(hours[1], start, end),
                  hour |-> hours[1], arg |-> sc[3]] >>
         ELSE <<>>
    ELSE [k \in DOMAIN sc[3] |->
            LET c == sc[3][k] IN
            [cb |-> IF c.change[2] = "away" THEN "on_away"
                    ELSE IF c.change[2] = "home" THEN "on_home"
                    ELSE "none",
             quiet |-> hb_within_quiet_hours(hours[k], start, end),
             hour |-> hours[k], arg |-> c.who]]

(***************************************************************************)
(* heartbeat.py: the process.                                              *)
(***************************************************************************)
RECURSIVE RowsOf(_, _)
RowsOf(f, u) ==
    IF u > NumUsers THEN <<>>
    ELSE IF f[u] = NoState THEN RowsOf(f, u + 1)
    ELSE <<[who |-> u, state |-> f[u], updated |-> 0]>> \o RowsOf(f, u + 1)

\* lamplighter.db when the process starts: no state table, or a table with
\* at most one row for each alias.
InitTables ==
    {[exists |-> FALSE, rows |-> <<>>]} \cup
    {[exists |-> TRUE, rows |-> RowsOf(f, 1)] :
        f \in [Users -> {NoState, "home", "away"}]}

InitHB ==
    /\ hpc = "main"
    /\ pc = "off"
    /\ statefile = NoState
    /\ InitScanVars
    /\ InitQuietVars
    /\ ll \in InitTables
    /\ now = 1
    /\ heartbeats = [u \in Users |-> NoRow]
    /\ people_at_home = {}
    /\ known_state = <<>>
    /\ new_state = <<>>
    /\ changes = <<>>
    /\ state_change = <<"away", "away", <<>> >>
    /\ hcalls = <<>>

\* The world a call of this step runs in.
World(hb, faults) ==
    [tbl |-> ll, hb |-> hb, now |-> now, faults |-> faults,
     users |-> config.users, error |-> NoError]

\* main(): config.load(), then run().
Main ==
    /\ hpc = "main"
    /\ config' \in HBConfigs
    /\ hpc' = "observe"
    /\ UNCHANGED <<ll, now, heartbeats, people_at_home, known_state,
                   new_state, changes, state_change, hcalls>>
    /\ UNCHANGED <<pc, pidfile, statefile, state, device_count, x, polls,
                   samples, delayed, saved, calls, baseline>>
    /\ UNCHANGED quietvars

\* observe_state_changes: people_at_home = who_is_home().  Iterating over
\* the False of a failed query raises TypeError.
WhoIsHome ==
    /\ hpc = "observe"
    /\ \E faults \in FaultScripts(1) :
         LET failed == query(World(heartbeats, faults),
                             [op |-> "heartbeats"], 1, 1) IN
         IF failed.w.error # NoError \/ ~failed.ok
         THEN /\ hpc' = "crashed"
              /\ ll' = failed.w.tbl
              /\ UNCHANGED <<heartbeats, people_at_home>>
         ELSE \E hb \in Heartbeats :
                LET q == query(World(hb, faults), [op |-> "heartbeats"], 1, 1)
                IN
                /\ hpc' = "states"
                /\ heartbeats' = hb
                /\ ll' = q.w.tbl
                /\ people_at_home' = people_of(q.rows)
    /\ UNCHANGED <<now, config, known_state, new_state, changes, state_change,
                   hcalls>>
    /\ UNCHANGED <<pc, pidfile, statefile, state, device_count, x, polls,
                   samples, delayed, saved, calls, baseline>>
    /\ UNCHANGED quietvars

\* observe_state_changes: known_state = get_all_states().  The list
\* comprehension over the False of a failed query raises TypeError.
GetAllStates ==
    /\ hpc = "states"
    /\ \E faults \in FaultScripts(1) :
         LET q == query(World(heartbeats, faults), [op |-> "select_all"], 1, 1)
         IN
         /\ ll' = q.w.tbl
         /\ IF q.w.error # NoError \/ ~q.ok
            THEN /\ hpc' = "crashed"
                 /\ known_state' = <<>>
            ELSE /\ hpc' = "rows"
                 /\ known_state' = q.rows
    /\ UNCHANGED <<now, config, heartbeats, people_at_home, new_state, changes,
                   state_change, hcalls>>
    /\ UNCHANGED <<pc, pidfile, statefile, state, device_count, x, polls,
                   samples, delayed, saved, calls, baseline>>
    /\ UNCHANGED quietvars

\* observe_state_changes: one pass of "for row in known_state"; the row is
\* the one after those new_state already holds.
ObserveRow ==
    /\ hpc = "rows"
    /\ Len(new_state) < Len(known_state)
    /\ LET row == known_state[Len(new_state) + 1] IN
       IF row.state = "away" /\ row.who \in people_at_home
       THEN \E faults \in FaultScripts(2) :
              LET w == set_state(World(heartbeats, faults), row.who, "home").w IN
              /\ ll' = w.tbl
              /\ IF w.error # NoError
                 THEN /\ hpc' = "crashed"
                      /\ UNCHANGED <<new_state, changes>>
                 ELSE /\ hpc' = "rows"
                      /\ new_state' = Append(new_state,
                                             [row EXCEPT !.state = "home"])
                      /\ changes' = dict_set(changes, row.who,
                                             <<"away", "home">>)
       ELSE IF row.state = "home" /\ row.who \notin people_at_home
       THEN \E faults \in FaultScripts(2) :
              LET w == set_state(World(heartbeats, faults), row.who, "away").w IN
              /\ ll' = w.tbl
              /\ IF w.error # NoError
                 THEN /\ hpc' = "crashed"
                      /\ UNCHANGED <<new_state, changes>>
                 ELSE /\ hpc' = "rows"
                      /\ new_state' = Append(new_state,
                                             [row EXCEPT !.state = "away"])
                      /\ changes' = dict_set(changes, row.who, GoneAway)
       ELSE /\ new_state' = Append(new_state, row)
            /\ UNCHANGED <<hpc, ll, changes>>
    /\ UNCHANGED <<now, config, heartbeats, people_at_home, known_state,
                   state_change, hcalls>>
    /\ UNCHANGED <<pc, pidfile, statefile, state, device_count, x, polls,
                   samples, delayed, saved, calls, baseline>>
    /\ UNCHANGED quietvars

\* The return of observe_state_changes and the rest of the pass of the loop
\* of run(), up to time.sleep(5).
Dispatch ==
    /\ hpc = "rows"
    /\ Len(new_state) = Len(known_state)
    /\ LET sc == <<get_combined_state(known_state),
                   get_combined_state(new_state), changes>> IN
       /\ state_change' = sc
       /\ \E hours \in [1..callbacks_count(sc) -> Hours] :
            hcalls' = callbacks_of(sc, hours, config.quiet_hours_start,
                                   config.quiet_hours_end)
    /\ hpc' = "sleep"
    /\ UNCHANGED <<ll, now, config, heartbeats, people_at_home, known_state,
                   new_state, changes>>
    /\ UNCHANGED <<pc, pidfile, statefile, state, device_count, x, polls,
                   samples, delayed, saved, calls, baseline>>
    /\ UNCHANGED quietvars

\* time.sleep(5): the clock has moved on when the next pass starts, and
\* what the last pass observed and called is forgotten.
HBSleep ==
    /\ hpc = "sleep"
    /\ now < MaxTime
    /\ \E t \in (now + 1)..MaxTime : now' = t
    /\ hpc' = "observe"
    /\ heartbeats' = [u \in Users |-> NoRow]
    /\ people_at_home' = {}
    /\ known_state' = <<>>
    /\ new_state' = <<>>
    /\ changes' = <<>>
    /\ state_change' = <<"away", "away", <<>> >>
    /\ hcalls' = <<>>
    /\ UNCHANGED <<ll, config>>
    /\ UNCHANGED <<pc, pidfile, statefile, state, device_count, x, polls,
                   samples, delayed, saved, calls, baseline>>
    /\ UNCHANGED quietvars

NextHB ==
    \/ Main
    \/ WhoIsHome
    \/ GetAllStates
    \/ ObserveRow
    \/ Dispatch
    \/ HBSleep

NextScan ==
    \/ Run
    \/ Search
    \/ InitialPoll
    \/ Decide
    \/ Delay
    \/ ConfirmSample
    \/ Sleep
    \/ Restart
    \/ handle_term
    \/ handle_hup

(***************************************************************************)
(* within_quiet_hours as a function of the hour and the configured hours.  *)
(***************************************************************************)
HoursOfDay == 0..23

InitQuiet ==
    /\ pc = "off"
    /\ hpc = "off"
    /\ statefile = NoState
    /\ InitScanVars
    /\ InitHBVars
    /\ q_in \in [hour : HoursOfDay, start : HoursOfDay, end : HoursOfDay]
    /\ q_out = [ll |-> "", hb |-> ""]

QuietApply ==
    /\ q_out = [ll |-> "", hb |-> ""]
    /\ q_out' = [ll |-> within_quiet_hours(q_in.hour, q_in.start, q_in.end),
                 hb |-> hb_within_quiet_hours(q_in.hour, q_in.start, q_in.end)]
    /\ UNCHANGED <<scanvars, hbvars, q_in>>

\* get_combined_state as a function of the rows it is given.
MaxRows == 3
StateLists ==
    UNION {[1..n -> [who : Users, state : {"home", "away"}]] : n \in 0..MaxRows}

InitCombined ==
    /\ pc = "off"
    /\ hpc = "off"
    /\ statefile = NoState
    /\ InitScanVars
    /\ InitHBVars
    /\ q_in \in StateLists
    /\ q_out = ""

CombinedApply ==
    /\ q_out = ""
    /\ q_out' = get_combined_state(q_in)
    /\ UNCHANGED <<scanvars, hbvars, q_in>>

\* query as a function of the store, the statement and the storage errors
\* that meet the call.
Statements ==
    {[op |-> "heartbeats"], [op |-> "select_all"]}
    \cup {[op |-> "select_who", who |-> u] : u \in Users}
    \cup {[op |-> o, who |-> u, state |-> st, updated |-> 1] :
             o \in {"insert", "update"}, u \in Users, st \in {"home", "away"}}

NoResult == [ok |-> FALSE, error |-> NoError, execs |-> 0, inits |-> 0]

InitQuery ==
    /\ hpc = "main"
    /\ pc = "off"
    /\ statefile = NoState
    /\ InitScanVars
    /\ ll \in InitTables
    /\ now = 1
    /\ heartbeats = [u \in Users |-> NoRow]
    /\ people_at_home = {}
    /\ known_state = <<>>
    /\ new_state = <<>>
    /\ changes = <<>>
    /\ state_change = <<"away", "away", <<>> >>
    /\ hcalls = <<>>
    /\ q_in \in [sql : Statements, faults : FaultScripts(3)]
    /\ q_out = NoResult

QueryApply ==
    /\ hpc = "observe"
    /\ q_out = NoResult
    /\ LET r == query(World(heartbeats, q_in.faults), q_in.sql, 1, 1) IN
       /\ ll' = r.w.tbl
       /\ q_out' = [ok |-> r.ok, error |-> r.w.error,
                    execs |-> r.execs, inits |-> r.inits]
       /\ hpc' = IF r.w.error # NoError THEN "crashed" ELSE "returned"
    /\ UNCHANGED <<now, config, heartbeats, people_at_home, known_state,
                   new_state, changes, state_change, hcalls, q_in>>
    /\ UNCHANGED <<pc, pidfile, statefile, state, device_count, x, polls,
                   samples, delayed, saved, calls, baseline>>

\* set_state called by the dispatcher between two passes of the loop of
\* run(); the clock moves on in the time.sleep(5) of run().
NoCall == [who |-> 0, state |-> "", before |-> <<>>]
NoReturn == [ok |-> FALSE, error |-> NoError, after |-> <<>>]

InitStore ==
    /\ hpc = "main"
    /\ pc = "off"
    /\ statefile = NoState
    /\ InitScanVars
    /\ ll \in InitTables
    /\ now = 1
    /\ heartbeats = [u \in Users |-> NoRow]
    /\ people_at_home = {}
    /\ known_state = <<>>
    /\ new_state = <<>>
    /\ changes = <<>>
    /\ state_change = <<"away", "away", <<>> >>
    /\ hcalls = <<>>
    /\ q_in = NoCall
    /\ q_out = NoReturn

SetState ==
    /\ hpc = "observe"
    /\ \E who \in Users, s \in {"home", "away"}, faults \in FaultScripts(4) :
         LET IsWho(r) == r.who = who
             r == set_state(World(heartbeats, faults), who, s)
         IN
         /\ ll' = r.w.tbl
         /\ q_in' = [who |-> who, state |-> s,
                     before |-> SelectSeq(ll.rows, IsWho)]
         /\ q_out' = [ok |-> r.ok, error |-> r.w.error,
                      after |-> SelectSeq(r.w.tbl.rows, IsWho)]
         /\ hpc' = IF r.w.error # NoError THEN "crashed" ELSE "called"
    /\ UNCHANGED <<now, config, heartbeats, people_at_home, known_state,
                   new_state, changes, state_change, hcalls>>
    /\ UNCHANGED <<pc, pidfile, statefile, state, device_count, x, polls,
                   samples, delayed, saved, calls, baseline>>

\* The dispatcher has what set_state returned and goes on.
SetStateReturn ==
    /\ hpc = "called"
    /\ hpc' = "observe"
    /\ q_in' = NoCall
    /\ q_out' = NoReturn
    /\ UNCHANGED <<ll, now, config, heartbeats, people_at_home, known_state,
                   new_state, changes, state_change, hcalls>>
    /\ UNCHANGED <<pc, pidfile, statefile, state, device_count, x, polls,
                   samples, delayed, saved, calls, baseline>>

Init == InitScan \/ InitHB
Next == NextScan \/ NextHB
Spec == Init /\ [][Next]_vars
SpecScan == InitScan /\ [][NextScan]_vars

\* The one thread of the scanning process takes its next step, whatever it
\* is, and the daemon manager starts the dispatcher again when it has died;
\* no signal has to come.
FairScan ==
    /\ WF_vars(Run)
    /\ WF_vars(Search)
    /\ WF_vars(InitialPoll)
    /\ WF_vars(Decide)
    /\ WF_vars(Delay)
    /\ WF_vars(ConfirmSample)
    /\ WF_vars(Sleep)
    /\ WF_vars(Restart)
SpecScanLive == SpecScan /\ FairScan
SpecHB == InitHB /\ [][NextHB]_vars
SpecQuiet == InitQuiet /\ [][QuietApply]_vars
SpecCombined == InitCombined /\ [][CombinedApply]_vars
SpecQuery == InitQuery /\ [][Main \/ QueryApply]_vars
SpecStore == InitStore /\ [][NextHB \/ SetState \/ SetStateReturn]_vars

(***************************************************************************)
(* Properties.                                                             *)
(***************************************************************************)
\* The polling cycle of the scan process is over.
CycleEnd == {"sleep", "crashed"}

\* C1: the state file goes from home to away only in a cycle that read
\* home, counted 0 at first, took the delay and whose 3 confirmation
\* samples are all 0; a cycle with a confirmation sample above 0 ends with
\* the file still home and nothing saved.
C1_AwayOnlyAfterThreeZeroSamples ==
    [][ /\ (statefile = "home" /\ statefile' = "away")
            => /\ state = "home"
               /\ device_count = 0
               /\ delayed
               /\ samples' = <<0, 0, 0>>
        /\ (pc' \in CycleEnd /\ \E i \in DOMAIN samples' : samples'[i] > 0)
            => /\ statefile' = "home"
               /\ saved' = <<>> ]_vars

C1_Witness ==
    /\ pc = "crashed"
    /\ state = "home"
    /\ statefile = "away"
    /\ samples = <<0, 0, 0>>
\* The subject has a heartbeat row whose age is below 2700 seconds.
Present(who) == heartbeats[who] # NoRow /\ heartbeats[who] < 2700

\* The states the table holds for who.
StoredStates(who) ==
    {ll.rows[i].state : i \in {j \in DOMAIN ll.rows : ll.rows[j].who = who}}

\* C2: a scan cycle that read away and counted more than 0 ends with home
\* in the state file, without the delay and without a confirmation sample;
\* a heartbeat cycle that completes leaves home in the store for every
\* subject it read as away and observed present.
C2_HomeOnFirstPositive ==
    /\ (pc \in CycleEnd /\ state = "away" /\ device_count > 0)
        => /\ statefile = "home"
           /\ saved = <<"home">>
           /\ samples = <<>>
           /\ ~delayed
    /\ hpc = "sleep"
        => \A i \in DOMAIN known_state :
              (known_state[i].state = "away" /\ Present(known_state[i].who))
                 => StoredStates(known_state[i].who) = {"home"}

C2_Witness ==
    /\ hpc = "sleep"
    /\ now > 1
    /\ \E i \in DOMAIN known_state :
          /\ known_state[i].state = "away"
          /\ known_state[i].updated > 0
          /\ Present(known_state[i].who)
          /\ StoredStates(known_state[i].who) = {"home"}

\* C3: past the loop of initial polls the count is conclusive; a cycle in
\* which a confirmation sample failed saves nothing and calls nothing; and
\* a cycle that saved away over home has three samples, none a failure.
C3_FailureIsNotZero ==
    /\ pc \in {"decide", "delay", "confirm", "sleep", "crashed"}
        => device_count # Fail
    /\ (\E i \in DOMAIN samples : samples[i] = Fail)
        => saved = <<>> /\ calls = <<>> /\ statefile = state
    /\ (state = "home" /\ saved = <<"away">>)
        => /\ Len(samples) = 3
           /\ \A i \in DOMAIN samples : samples[i] # Fail

C3_Witness ==
    /\ pc = "crashed"
    /\ polls > 0
    /\ state = "home"
    /\ statefile = "away"

\* C4: a confirmation that is over was decided by conclusive samples: it
\* saw a count above 0 or it has three samples of 0 (a failed sample is
\* repeated, never the one that ends the confirmation).
C4_FailedSampleRetriedInPlace ==
    (pc \in CycleEnd /\ delayed)
        => \/ \E i \in DOMAIN samples : samples[i] > 0
           \/ samples = <<0, 0, 0>>

\* C5: a cycle that saved a transition has invoked exactly one callback,
\* the one of the new state, by the time it is over; a cycle whose state
\* matches the count, or whose confirmation was a false alarm, saved
\* nothing and called nothing.
C5_SaveThenOneCallback ==
    pc \in CycleEnd
        => /\ (state = "home" /\ saved = <<"away">>)
               => Len(calls) = 1 /\ calls[1].cb = "on_away"
           /\ (state = "away" /\ saved = <<"home">>)
               => Len(calls) = 1 /\ calls[1].cb = "on_home"
           /\ saved = <<>> => calls = <<>>

\* C6: every transition a cycle committed has its callback invoked, in
\* quiet hours and out of them, with the flag the gate gives at the hour of
\* the call.
C6_QuietNeverSuppresses ==
    /\ (pc \in CycleEnd /\ saved # <<>> /\ saved[1] # state)
        => /\ calls # <<>>
           /\ \A k \in DOMAIN calls :
                 calls[k].quiet = "True"
                    <=> truthy(within_quiet_hours(calls[k].hour,
                                                  config.quiet_hours_start,
                                                  config.quiet_hours_end))
    /\ (hpc = "sleep" /\ state_change[3] # <<>>)
        => /\ hcalls # <<>>
           /\ \A k \in DOMAIN hcalls :
                 hcalls[k].quiet =
                    hb_within_quiet_hours(hcalls[k].hour,
                                          config.quiet_hours_start,
                                          config.quiet_hours_end)
\* Quiet hours as the design states them.
QuietExpected(hour, start, end) ==
    IF start = 0 /\ end = 0 THEN FALSE
    ELSE IF start < end THEN start <= hour /\ hour < end
    ELSE IF start > end THEN hour >= start \/ hour < end
    ELSE FALSE

\* C7: for every hour, start and end in 0..23, both within_quiet_hours
\* give a true value exactly in the hours the design calls quiet (never
\* when start = end), and give False itself when start = end = 0.
C7_QuietHoursTable ==
    q_out # [ll |-> "", hb |-> ""]
        => /\ truthy(q_out.ll) <=> QuietExpected(q_in.hour, q_in.start, q_in.end)
           /\ truthy(q_out.hb) <=> QuietExpected(q_in.hour, q_in.start, q_in.end)
           /\ (q_in.start = 0 /\ q_in.end = 0)
                 => q_out.ll = "False" /\ q_out.hb = "False"
           /\ (q_in.start = q_in.end) => ~truthy(q_out.ll) /\ ~truthy(q_out.hb)

C7_Witness ==
    /\ q_in = [hour |-> 23, start |-> 22, end |-> 6]
    /\ q_out = [ll |-> "True", hb |-> "True"]

\* C8: a cycle that finds no state file never takes the delay or a
\* confirmation sample, and the step search() takes after its first
\* conclusive count (a signal may be handled before it) saves away for a
\* count of 0 and home otherwise and ends the cycle.
C8_InitializedFromFirstCount ==
    [][ /\ (pc = "initial" /\ statefile = NoState) => state = NoState
        /\ (pc = "decide" /\ state = NoState /\ pc' \notin {"decide", "exited"})
            => /\ device_count # Fail
               /\ statefile' = IF device_count = 0 THEN "away" ELSE "home"
               /\ saved' = <<statefile'>>
               /\ samples' = <<>>
               /\ ~delayed'
               /\ pc' \in CycleEnd ]_vars

C8_Witness ==
    /\ pc = "crashed"
    /\ device_count = 0
    /\ state = "away"
    /\ saved = <<"away">>
    /\ statefile = "away"

\* The record the cycle read for a subject agrees with what it observed.
Agrees(row) == row.state = "home" <=> Present(row.who)

\* C9: when a heartbeat cycle completes, people_at_home is the set of the
\* subjects with a heartbeat younger than 2700 seconds, every state record
\* is home exactly if its subject is in that set, the changes are those of
\* the records that disagreed with the observation, and a record that
\* agreed is still the record that was read.
C9_StoreFollowsObservation ==
    hpc = "sleep"
        => /\ people_at_home = {u \in Users : Present(u)}
           /\ \A j \in DOMAIN ll.rows : Agrees(ll.rows[j])
           /\ {state_change[3][k].who : k \in DOMAIN state_change[3]}
                 = {known_state[i].who :
                       i \in {n \in DOMAIN known_state : ~Agrees(known_state[n])}}
           /\ \A i \in DOMAIN known_state :
                 Agrees(known_state[i])
                    => \E j \in DOMAIN ll.rows : ll.rows[j] = known_state[i]

C9_Witness ==
    /\ hpc = "sleep"
    /\ \E i, j \in DOMAIN known_state :
          /\ ~Agrees(known_state[i])
          /\ Agrees(known_state[j])
          /\ known_state[j].updated < now
          /\ \E k \in DOMAIN ll.rows :
                /\ ll.rows[k].who = known_state[i].who
                /\ ll.rows[k].updated = now

\* C10: when the first heartbeat cycle has completed, and from then on,
\* every configured subject has a state record.
C10_RecordCreatedOnFirstObservation ==
    hpc = "sleep"
        => \A u \in config.users :
              \E j \in DOMAIN ll.rows : ll.rows[j].who = u

\* The subjects whose record said home and whose heartbeat is stale, and the
\* subjects whose record said away and whose heartbeat is fresh: who left and
\* who arrived in the cycle.
Left ==
    {known_state[i].who :
        i \in {n \in DOMAIN known_state :
                  known_state[n].state = "home" /\ ~Present(known_state[n].who)}}

Arrived ==
    {known_state[i].who :
        i \in {n \in DOMAIN known_state :
                  known_state[n].state = "away" /\ Present(known_state[n].who)}}

\* The combined state of the records read at the start of the cycle and of
\* the records in the store at its end: home when some record says home.
CombinedBefore ==
    IF \E i \in DOMAIN known_state : known_state[i].state = "home"
    THEN "home" ELSE "away"

CombinedAfter ==
    IF \E j \in DOMAIN ll.rows : ll.rows[j].state = "home"
    THEN "home" ELSE "away"

CalledFor(cb) == {hcalls[k].arg : k \in {n \in DOMAIN hcalls : hcalls[n].cb = cb}}

\* C11: at the end of a heartbeat cycle in which the combined state did not
\* change, on_away has been invoked for exactly the subjects that went from
\* home to away and on_home for exactly the subjects that went from away to
\* home.
C11_PerSubjectCallbackFollowsDirection ==
    (hpc = "sleep" /\ CombinedBefore = CombinedAfter)
        => /\ CalledFor("on_away") = Left
           /\ CalledFor("on_home") = Arrived

C20_CombinedExcludesPerSubject ==
    hpc = "sleep"
        => IF CombinedBefore # CombinedAfter
           THEN /\ Len(hcalls) = 1
                /\ hcalls[1].cb \in {"on_first_home", "on_last_away"}
           ELSE \A k \in DOMAIN hcalls : hcalls[k].cb \in {"on_home", "on_away"}

C20_Witness ==
    /\ hpc = "sleep"
    /\ CombinedBefore = "away"
    /\ CombinedAfter = "home"
    /\ Cardinality(Arrived) = 2
    /\ Len(hcalls) = 1
    /\ hcalls[1].cb = "on_first_home"

\* C13: the combined state of a list of records with states home and away
\* is home exactly when at least one record says home, and away otherwise,
\* the empty list included.
C13_CombinedIsHomeIffSomeoneHome ==
    q_out # ""
        => /\ q_out = "home" <=> \E i \in DOMAIN q_in : q_in[i].state = "home"
           /\ q_out = "away" <=> \A i \in DOMAIN q_in : q_in[i].state = "away"
           /\ q_in = <<>> => q_out = "away"

C13_Witness ==
    /\ q_out = "home"
    /\ Len(q_in) = 2
    /\ q_in[1].who # q_in[2].who
    /\ q_in[1].state = "home"
    /\ q_in[2].state = "away"

\* C14: the scanning process leaves on a termination signal with the
\* pidfile removed, and never from inside a confirmation: once the delay or
\* the samples have begun, it does not exit before the confirmation has
\* committed away or met a false alarm.
C14_TermNeverInsideConfirmation ==
    [][(pc # "exited" /\ pc' = "exited")
          => (~pidfile' /\ pc \notin {"delay", "confirm"})]_vars

\* C15: every sample of a confirmation is the count of its scan against the
\* devices that were configured when the confirmation started, whatever
\* reloads of the configuration were signalled in the meantime.
C15_ReloadLeavesConfirmationAlone ==
    samples = baseline.counts

\* C16: the scanning process is never dead of an exception: whatever the
\* state file held and whatever its scans counted, a cycle that initialized
\* the state or committed a transition included, run() is in its loop or has
\* exited on a termination signal.
C16_LoopNeverDies ==
    pc # "crashed"

\* C17: a call of query that has returned executed its statement once, or,
\* when that execution raised, called init_database once and executed the
\* statement a second time; it never raises, and it returns False only
\* after the second execution.
C17_OneReinitOneRetry ==
    q_out # NoResult
        => /\ q_out.error = NoError
           /\ q_out.execs \in {1, 2}
           /\ q_out.inits = q_out.execs - 1
           /\ ~q_out.ok => q_out.execs = 2

\* C18: the store never holds two records of one subject, and a call of
\* set_state(who, s) that succeeded has left one record of who, in state s.
C18_OneRecordPerSubject ==
    /\ \A u \in Users :
          Cardinality({j \in DOMAIN ll.rows : ll.rows[j].who = u}) <= 1
    /\ q_out.ok
          => /\ Len(q_out.after) = 1
             /\ q_out.after[1].state = q_in.state

C18_Witness ==
    /\ hpc = "called"
    /\ q_out.ok
    /\ Len(q_in.before) = 1
    /\ q_in.before[1].state # q_in.state
    /\ Len(q_out.after) = 1
    /\ Len(ll.rows) = 2

\* C19: a call of set_state that succeeded on a subject that had a record
\* has left an updated value greater than the one the record had.
C19_UpdatedStrictlyIncreases ==
    (q_out.ok /\ q_in.before # <<>>)
        => q_out.after[1].updated > q_in.before[1].updated

\* A step in which every scan that is taken succeeds and counts no
\* configured device, and a step in which every scan that is taken fails.
ZeroScans ==
    /\ pc = "initial" => (device_count' = 0 \/ UNCHANGED <<device_count, polls>>)
    /\ Len(samples') > Len(samples) => samples'[Len(samples')] = 0

FailedScans ==
    /\ pc = "initial" => device_count' = Fail
    /\ Len(samples') > Len(samples) => samples'[Len(samples')] = Fail

====
